---- MODULE Spec2Model ----
(***************************************************************************)
(* Model of the weather gRPC service: the store adapter (server/db.py),    *)
(* the freshness cache and the two RPCs (server/weather_server.py).        *)
(*                                                                         *)
(* Strings are sequences of one-character strings, so that strip(),        *)
(* lower(), upper() and capitalize() are computed character by character.  *)
(* Documents of the collection are functions from field names to values    *)
(* (a missing field is a name outside the DOMAIN).  Time is in whole       *)
(* seconds.                                                                *)
(***************************************************************************)
EXTENDS Integers, Sequences, FiniteSets, TLC

VARIABLES
    now,        \* time.time(), in seconds
    store,      \* the MongoDB collection, in insertion order
    ttl,        \* CACHE_TTL_SECONDS
    grpcKey,    \* environment variable GRPC_API_KEY ("" when not set)
    owKey,      \* environment variable OPENWEATHER_API_KEY ("" when not set)
    calls,      \* the gRPC calls of the run, each served by its own worker thread
    ticks,      \* number of clock advances so far
    q           \* the last direct call of a store adapter / helper function

vars == <<now, store, ttl, grpcKey, owKey, calls, ticks, q>>

-----------------------------------------------------------------------------
(* Bounds *)

MaxLen == 2          \* longest city string drawn as an input
MaxTTL == 1          \* largest CACHE_TTL_SECONDS drawn
MaxTicks == 1        \* seconds that pass while the calls run
MaxHourTicks == 2    \* hours that pass between direct calls of the store adapter
MaxStore == 2        \* documents in the collection
MaxLimit == 2        \* largest 'limit' drawn for a history query
MaxHours == 2        \* largest 'hours' drawn for a history query
MaxInitDocs == 1     \* documents already in the collection at start

-----------------------------------------------------------------------------
(* Strings *)

Chars == {"a", "A", " "}
Whitespace == {" "}

RECURSIVE StringsOfLen(_)
StringsOfLen(n) ==
    IF n = 0 THEN {<<>>}
    ELSE {Append(s, c) : s \in StringsOfLen(n - 1), c \in Chars}

Strings == UNION {StringsOfLen(n) : n \in 0..MaxLen}

LowerChar(c) == IF c = "A" THEN "a" ELSE c
UpperChar(c) == IF c = "a" THEN "A" ELSE c

Lower(s) == [i \in 1..Len(s) |-> LowerChar(s[i])]
Upper(s) == [i \in 1..Len(s) |-> UpperChar(s[i])]
Capitalize(s) ==
    [i \in 1..Len(s) |-> IF i = 1 THEN UpperChar(s[i]) ELSE LowerChar(s[i])]

RECURSIVE LStrip(_)
LStrip(s) ==
    IF s = <<>> THEN s
    ELSE IF Head(s) \in Whitespace THEN LStrip(Tail(s)) ELSE s

RECURSIVE RStrip(_)
RStrip(s) ==
    IF s = <<>> THEN s
    ELSE IF s[Len(s)] \in Whitespace THEN RStrip(SubSeq(s, 1, Len(s) - 1)) ELSE s

Strip(s) == RStrip(LStrip(s))

-----------------------------------------------------------------------------
(* Dictionaries *)

Get(d, k, default) == IF k \in DOMAIN d THEN d[k] ELSE default

\* {**p, **over}: the entries of over win
Spread(p, over) ==
    [k \in DOMAIN p \cup DOMAIN over |-> IF k \in DOMAIN over THEN over[k] ELSE p[k]]

None == <<>>         \* Python None where a dict or a response is expected

\* created_at values as they can sit in a document
Num(n) == [k |-> "num", v |-> n]          \* int or float
NumStr(n) == [k |-> "numstr", v |-> n]    \* a string of digits, e.g. "17"
BadStr == [k |-> "str", v |-> 0]          \* a string that is not a number
Missing == [k |-> "none", v |-> 0]        \* field missing or null

CreatedAt(doc) == Get(doc, "created_at", Missing)

-----------------------------------------------------------------------------
(* Store adapter: server/db.py *)

\* BSON comparison order of the values of created_at: null < numbers < strings
Rank(c) == CASE c.k = "none" -> 0 [] c.k = "num" -> 1 [] c.k = "numstr" -> 2 [] OTHER -> 3

\* a sorts strictly after b in ascending order of created_at
Newer(a, b) ==
    \/ Rank(CreatedAt(a)) > Rank(CreatedAt(b))
    \/ /\ Rank(CreatedAt(a)) = Rank(CreatedAt(b))
       /\ CreatedAt(a).v > CreatedAt(b).v

NewDoc_PayloadLast(cache_key, payload, t) ==
    Spread([cache_key |-> cache_key, created_at |-> Num(t)], payload)

\* save_weather_record: the document inserted at time t
NewDoc(cache_key, payload, t) ==
    Spread(payload, [cache_key |-> cache_key, created_at |-> Num(t)])

save_weather_record_Upsert(st, cache_key, payload, t) ==
    IF \E n \in 1..Len(st) : Get(st[n], "cache_key", <<>>) = cache_key
    THEN LET n == CHOOSE m \in 1..Len(st) : Get(st[m], "cache_key", <<>>) = cache_key
         IN  [st EXCEPT ![n] = NewDoc(cache_key, payload, t)]
    ELSE Append(st, NewDoc(cache_key, payload, t))

save_weather_record(st, cache_key, payload, t) ==
    Append(st, NewDoc(cache_key, payload, t))

HistoryKey_NoStrip(city) == Lower(city)

\* get_weather_history: (city or "").strip().lower()
HistoryKey(city) == Lower(Strip(city))

\* get_latest_weather_record: (cache_key or "").strip().lower()
LatestKey(cache_key) == Lower(Strip(cache_key))

\* the $or clause of get_weather_history
HistoryMatch(doc, city) ==
    \/ "cache_key" \in DOMAIN doc /\ doc["cache_key"] = HistoryKey(city)
    \/ /\ "city" \in DOMAIN doc
       /\ doc["city"] \in {city, Capitalize(city), Lower(city), Upper(city)}

NoHours == 0 - 1     \* hours=None

HoursMatch_Days(doc, hours, t) ==
    \/ hours = NoHours
    \/ CreatedAt(doc).k = "num" /\ CreatedAt(doc).v >= t - hours * 86400

\* the created_at clause of get_weather_history ($gte compares numbers only)
HoursMatch(doc, hours, t) ==
    \/ hours = NoHours
    \/ CreatedAt(doc).k = "num" /\ CreatedAt(doc).v >= t - hours * 3600

\* the orders .sort("created_at", DESCENDING) can produce for the documents I
SortedDesc(st, I) ==
    {p \in [1..Cardinality(I) -> I] :
        /\ \A i, j \in 1..Cardinality(I) : i # j => p[i] # p[j]
        /\ \A i, j \in 1..Cardinality(I) : i < j => ~Newer(st[p[j]], st[p[i]])}

\* cursor.limit(n): 0 means no limit
Limit(p, n) == IF n = 0 \/ n >= Len(p) THEN p ELSE SubSeq(p, 1, n)

\* get_weather_history: every list the query can return
get_weather_history(st, city, limit, hours, t) ==
    IF HistoryKey(city) = <<>> THEN {<<>>}
    ELSE LET I == {i \in 1..Len(st) : HistoryMatch(st[i], city) /\ HoursMatch(st[i], hours, t)}
         IN  {[n \in 1..Len(Limit(p, limit)) |-> st[p[n]]] : p \in SortedDesc(st, I)}

get_latest_weather_record_Fallback(st, cache_key) ==
    LET I == {i \in 1..Len(st) : HistoryMatch(st[i], cache_key)}
    IN  IF I = {} THEN {None}
        ELSE {st[i] : i \in {m \in I : \A o \in I : ~Newer(st[o], st[m])}}

\* get_latest_weather_record: every document find_one can return (None if no match)
get_latest_weather_record(st, cache_key) ==
    LET I == {i \in 1..Len(st) :
                "cache_key" \in DOMAIN st[i] /\ st[i]["cache_key"] = LatestKey(cache_key)}
    IN  IF I = {} THEN {None}
        ELSE {st[i] : i \in {m \in I : \A o \in I : ~Newer(st[o], st[m])}}

-----------------------------------------------------------------------------
(* Freshness cache: get_cached_weather_if_fresh *)

\* float(created_at) succeeds
ParsesAsFloat(c) == c.k \in {"num", "numstr"}

Expired_AtTTL(age, T) == age >= T

\* the branch "age > CACHE_TTL_SECONDS"
Expired(age, T) == age > T

FromCache_Fallback(doc, city_fallback, t) ==
    [city |-> city_fallback,
     temperature_celsius |-> 0,
     description |-> "n/a",
     humidity |-> 0,
     wind_speed |-> 0,
     timestamp |-> t]

\* the WeatherResponse built from a cached document
FromCache(doc, city_fallback, t) ==
    [city |-> Get(doc, "city", city_fallback),
     temperature_celsius |-> Get(doc, "temperature_celsius", 0),
     description |-> Get(doc, "description", "n/a"),
     humidity |-> Get(doc, "humidity", 0),
     wind_speed |-> Get(doc, "wind_speed", 0),
     timestamp |-> Get(doc, "timestamp", t)]

get_cached_weather_if_fresh_Raising(failed, doc, city_fallback, t, T) ==
    IF failed THEN [error |-> "store"]
    ELSE IF doc = None THEN None
    ELSE IF CreatedAt(doc).k = "none" THEN None
    ELSE IF ~ParsesAsFloat(CreatedAt(doc)) THEN None
    ELSE IF Expired(t - CreatedAt(doc).v, T) THEN None
    ELSE FromCache(doc, city_fallback, t)

\* failed: get_latest_weather_record raised; doc: what it returned otherwise
get_cached_weather_if_fresh(failed, doc, city_fallback, t, T) ==
    IF failed THEN None
    ELSE IF doc = None THEN None
    ELSE IF CreatedAt(doc).k = "none" THEN None
    ELSE IF ~ParsesAsFloat(CreatedAt(doc)) THEN None
    ELSE IF Expired(t - CreatedAt(doc).v, T) THEN None
    ELSE FromCache(doc, city_fallback, t)

-----------------------------------------------------------------------------
(* Provider: the HTTP exchange with OpenWeatherMap *)

FORECAST_STEPS_3H == 2

\* JSON bodies of a 200 answer to the current-weather request
FullBody ==
    [name |-> <<"A">>,
     main |-> [temp |-> Num(20), humidity |-> Num(60)],
     weather |-> <<[description |-> "clear sky"]>>,
     wind |-> [speed |-> Num(3)]]
SparseBody == [main |-> [temp |-> Missing]]
CurrentBodies == {FullBody, SparseBody}

\* JSON bodies of a 200 answer to the forecast request: n steps, in provider order
Step(i) ==
    [dt_txt |-> i,
     main |-> [temp |-> Num(10 + i), humidity |-> Num(50)],
     weather |-> <<[description |-> "clouds"]>>,
     wind |-> [speed |-> Num(2)]]
ForecastBody(n) == [city |-> [name |-> <<"A">>], list |-> [i \in 1..n |-> Step(i)]]
\* a body whose steps are not in the order of their timestamps
UnorderedBody ==
    [city |-> [name |-> <<"A">>], list |-> <<Step(3), Step(1), Step(2)>>]
\* a body whose only step has a null temperature
NullStepBody ==
    [city |-> [name |-> <<"A">>],
     list |-> <<[dt_txt |-> 1, main |-> [temp |-> Missing, humidity |-> Num(50)]]>>]
ForecastBodies ==
    {ForecastBody(n) : n \in 0..(FORECAST_STEPS_3H + 1)} \cup {UnorderedBody, NullStepBody}

\* what requests.get / resp.json() can do
Exchange(kind, status, body) == [kind |-> kind, status |-> status, body |-> body]
Failures ==
    {Exchange("exception", 0, None),      \* requests.RequestException (timeout, transport)
     Exchange("response", 404, None),
     Exchange("response", 500, None),
     Exchange("badjson", 200, None)}       \* status 200, body is not JSON
CurrentExchanges == Failures \cup {Exchange("response", 200, b) : b \in CurrentBodies}
ForecastExchanges == Failures \cup {Exchange("response", 200, b) : b \in ForecastBodies}

\* the outcome of a function: a value, or the exception it raised
Returns(v) == [raises |-> "", msg |-> "", value |-> v]
Raises(e, m) == [raises |-> e, msg |-> m, value |-> None]

\* fetch_weather_from_openweather, given the exchange x that requests.get performs
fetch_weather_from_openweather(api_key, x) ==
    IF api_key = "" THEN Raises("RuntimeError", "Missing OPENWEATHER_API_KEY")
    ELSE IF x.kind = "exception" THEN Raises("RuntimeError", "Error calling OpenWeatherMap")
    ELSE IF x.status = 404 THEN Raises("ValueError", "City not found")
    ELSE IF x.status # 200 THEN Raises("RuntimeError", "OpenWeatherMap API error")
    ELSE IF x.kind = "badjson" THEN Raises("ValueError", "Expecting value")
    ELSE Returns(x.body)

FetchAbort_AllUnavailable(r) == [status |-> "UNAVAILABLE", details |-> r.msg]

\* the except clauses of GetCurrentWeather around the fetch
FetchAbort(r) ==
    IF r.raises = "ValueError" THEN [status |-> "NOT_FOUND", details |-> r.msg]
    ELSE [status |-> "UNAVAILABLE", details |-> r.msg]

\* the value or the default of an optional number
NumOr(c, default) == IF c.k = "none" THEN default ELSE c.v

\* the WeatherResponse GetCurrentWeather builds from the provider's body at time t
BuildResponse(data, city_input, t) ==
    LET name == IF Get(data, "name", <<>>) = <<>> THEN city_input ELSE data["name"]
        main == Get(data, "main", None)
        weather_list == Get(data, "weather", <<>>)
        wind == Get(data, "wind", None)
    IN  [city |-> name,
         temperature_celsius |-> NumOr(Get(main, "temp", Missing), 0),
         \* a description of None leaves the protobuf field at its default ""
         description |-> IF weather_list # <<>>
                         THEN Get(weather_list[1], "description", "")
                         ELSE "n/a",
         humidity |-> NumOr(Get(main, "humidity", Missing), 0),
         wind_speed |-> NumOr(Get(wind, "speed", Missing), 0),
         timestamp |-> t]

\* float(None) / int(None) in the loop of GetForecast raises TypeError
EntryRaises(f) ==
    \/ Get(Get(f, "main", None), "temp", Num(0)).k = "none"
    \/ Get(Get(f, "main", None), "humidity", Num(0)).k = "none"
    \/ Get(Get(f, "wind", None), "speed", Num(0)).k = "none"

\* the ForecastEntry built from one step of the provider's list
BuildEntry(f) ==
    LET main == Get(f, "main", None)
        weather == Get(f, "weather", <<>>)
        wind == Get(f, "wind", None)
    IN  [timestamp |-> Get(f, "dt_txt", 0),
         temperature_celsius |-> Get(main, "temp", Num(0)).v,
         description |-> IF weather # <<>>
                         THEN Get(weather[1], "description", "n/a")
                         ELSE "n/a",
         humidity |-> Get(main, "humidity", Num(0)).v,
         wind_speed |-> Get(wind, "speed", Num(0)).v]

Truncate_Tail(list, n) ==
    IF Len(list) <= n THEN list ELSE SubSeq(list, Len(list) - n + 1, Len(list))

\* forecast_list[:FORECAST_STEPS_3H]
Truncate(list, n) == IF Len(list) <= n THEN list ELSE SubSeq(list, 1, n)

BuildForecast(data, city_input) ==
    LET list == Get(data, "list", <<>>)
        kept == Truncate(list, FORECAST_STEPS_3H)
    IN  [city |-> Get(Get(data, "city", None), "name", city_input),
         entries |-> [i \in 1..Len(kept) |-> BuildEntry(kept[i])]]

-----------------------------------------------------------------------------
(* Authentication gate *)

Absent == "<absent>"                      \* no x-api-key entry in the metadata
ReceivedKeys == {Absent, "", "k", "x"}

Falsy_NoneOnly(received) == received = Absent

\* "not received"
Falsy(received) == received \in {Absent, ""}

validate_api_key_from_metadata_CallerFirst(expected, received) ==
    IF Falsy(received) THEN
        [status |-> "UNAUTHENTICATED", details |-> "Missing x-api-key", inspected |-> TRUE]
    ELSE IF expected = "" THEN
        [status |-> "UNKNOWN", details |-> "Missing GRPC_API_KEY", inspected |-> TRUE]
    ELSE IF received # expected THEN
        [status |-> "PERMISSION_DENIED", details |-> "Invalid x-api-key", inspected |-> TRUE]
    ELSE [status |-> "", details |-> "", inspected |-> TRUE]

\* validate_api_key_from_metadata: the status it aborts with ("" if it passes)
\* and whether the caller's credential was read
validate_api_key_from_metadata(expected, received) ==
    IF expected = "" THEN
        \* get_expected_api_key raises RuntimeError; gRPC reports UNKNOWN
        [status |-> "UNKNOWN", details |-> "Missing GRPC_API_KEY", inspected |-> FALSE]
    ELSE IF Falsy(received) THEN
        [status |-> "UNAUTHENTICATED", details |-> "Missing x-api-key", inspected |-> TRUE]
    ELSE IF received # expected THEN
        [status |-> "PERMISSION_DENIED", details |-> "Invalid x-api-key", inspected |-> TRUE]
    ELSE [status |-> "", details |-> "", inspected |-> TRUE]

CityInput_NoStrip(city) == city

\* (request.city or "").strip()
CityInput(city) == Strip(city)

CacheKey_AsGiven(city_input) == city_input

\* city_input.lower()
CacheKey(city_input) == Lower(city_input)

-----------------------------------------------------------------------------
(* State *)

CallIds == {1, 2}

NoExchange == Exchange("none", 0, None)

IdleCall ==
    [pc |-> "idle", op |-> "", city |-> <<>>, received |-> Absent,
     inspected |-> FALSE, city_input |-> <<>>, cache_key |-> <<>>,
     lookupFailed |-> FALSE, doc |-> None, lookupAt |-> 0, seen |-> 0,
     cached |-> None,
     x |-> NoExchange, response |-> None, saveFailed |-> FALSE,
     status |-> "", details |-> "",
     storeReads |-> 0, providerCalls |-> 0, inserts |-> 0]

\* a document as GetCurrentWeather persisted it at time t
StoredDoc(key, city, c) ==
    [cache_key |-> key, city |-> city, temperature_celsius |-> 5,
     description |-> "mist", humidity |-> 40, wind_speed |-> 9,
     timestamp |-> 0, created_at |-> c]

\* documents the collection can hold before the service starts
PreDocs ==
    {StoredDoc(<<"a">>, <<"A">>, Num(0)),
     StoredDoc(<<"a", "a">>, <<"A">>, Num(0)),
     StoredDoc(<<"a">>, <<"A">>, NumStr(0)),
     StoredDoc(<<"a">>, <<"A">>, BadStr),
     [cache_key |-> <<"a">>, city |-> <<"A">>],
     [city |-> <<"A">>, temperature_celsius |-> 5, created_at |-> Num(0)]}

\* the documents of S in some order
InOrder(S) ==
    CHOOSE s \in [1..Cardinality(S) -> S] : \A i, j \in 1..Cardinality(S) : i # j => s[i] # s[j]

InitStores == {InOrder(S) : S \in {T \in SUBSET PreDocs : Cardinality(T) <= MaxInitDocs}}

\* the calls a run can consist of: one call with any request, alone or
\* concurrent with a GetCurrentWeather call that carries the right credential
CallCities == {<<>>, <<" ">>, <<" ", "A">>, <<"a", "a">>}
Ops == {"GetCurrentWeather", "GetForecast"}
Arriving(op, city, received) ==
    [IdleCall EXCEPT !.pc = "new", !.op = op, !.city = city, !.received = received]
Requests == {Arriving(op, city, received) :
                op \in Ops, city \in CallCities, received \in ReceivedKeys}
Twin == Arriving("GetCurrentWeather", <<" ", "A">>, "k")
Concurrent ==
    {Twin,
     Arriving("GetForecast", <<" ", "A">>, "k"),
     Arriving("GetForecast", <<" ">>, "x"),
     Arriving("GetCurrentWeather", <<" ", "A">>, Absent)}
Workloads == {<<r, IdleCall>> : r \in Requests} \cup {<<r, Twin>> : r \in Concurrent}

NoQuery == [fn |-> "none"]

Init ==
    /\ now = 0
    /\ store \in InitStores
    /\ ttl \in 0..MaxTTL
    /\ grpcKey \in {"", "k"}
    /\ owKey \in {"", "ow"}
    /\ calls \in Workloads
    /\ ticks = 0
    /\ q = NoQuery

-----------------------------------------------------------------------------
(* Actions *)

\* the clock advances
Tick ==
    /\ ticks < MaxTicks
    /\ now' = now + 1
    /\ ticks' = ticks + 1
    /\ UNCHANGED <<store, ttl, grpcKey, owKey, calls, q>>

Finish(c, status, details) == [c EXCEPT !.pc = "done", !.status = status, !.details = details]

Enter_CityFirst(c) ==
    LET auth == validate_api_key_from_metadata(grpcKey, c.received)
        a == [c EXCEPT !.inspected = auth.inspected]
        city_input == CityInput(c.city)
    IN  IF city_input = <<>>
        THEN Finish(c, "INVALID_ARGUMENT", "City name must not be empty")
        ELSE IF auth.status # "" THEN Finish(a, auth.status, auth.details)
        ELSE IF c.op = "GetCurrentWeather"
             THEN [a EXCEPT !.pc = "cache", !.city_input = city_input,
                            !.cache_key = CacheKey(city_input)]
        ELSE [a EXCEPT !.pc = "forecast", !.city_input = city_input]

\* GetCurrentWeather / GetForecast up to the first access to the store or the
\* provider: authentication gate, then validation of the city
Enter(c) ==
    LET auth == validate_api_key_from_metadata(grpcKey, c.received)
        a == [c EXCEPT !.inspected = auth.inspected]
        city_input == CityInput(c.city)
    IN  IF auth.status # "" THEN Finish(a, auth.status, auth.details)
        ELSE IF city_input = <<>>
             THEN Finish(a, "INVALID_ARGUMENT", "City name must not be empty")
        ELSE IF c.op = "GetCurrentWeather"
             THEN [a EXCEPT !.pc = "cache", !.city_input = city_input,
                            !.cache_key = CacheKey(city_input)]
        ELSE [a EXCEPT !.pc = "forecast", !.city_input = city_input]

\* a call arrives and runs on a free worker thread
Call(i) ==
    /\ calls[i].pc = "new"
    /\ calls' = [calls EXCEPT ![i] = Enter(calls[i])]
    /\ UNCHANGED <<now, store, ttl, grpcKey, owKey, ticks, q>>

CacheLookup_SingleFlight(i) ==
    /\ calls[i].pc = "cache"
    /\ \A j \in CallIds \ {i} :
          ~(calls[j].pc \in {"fetch", "save"} /\ calls[j].cache_key = calls[i].cache_key)
    /\ \E failed \in BOOLEAN, doc \in get_latest_weather_record(store, calls[i].cache_key) :
         LET c == calls[i]
             seenDoc == IF failed THEN None ELSE doc
             cached == get_cached_weather_if_fresh(failed, doc, c.city_input, now, ttl)
             l == [c EXCEPT !.lookupFailed = failed, !.doc = seenDoc, !.lookupAt = now,
                            !.seen = Len(store), !.storeReads = c.storeReads + 1,
                            !.cached = cached]
         IN  calls' = [calls EXCEPT ![i] =
                 IF cached # None
                 THEN [Finish(l, "OK", "") EXCEPT !.response = cached]
                 ELSE [l EXCEPT !.pc = "fetch"]]
    /\ UNCHANGED <<now, store, ttl, grpcKey, owKey, ticks, q>>

\* GetCurrentWeather, step 1: get_cached_weather_if_fresh
CacheLookup(i) ==
    /\ calls[i].pc = "cache"
    /\ \E failed \in BOOLEAN, doc \in get_latest_weather_record(store, calls[i].cache_key) :
         LET c == calls[i]
             seenDoc == IF failed THEN None ELSE doc
             cached == get_cached_weather_if_fresh(failed, doc, c.city_input, now, ttl)
             l == [c EXCEPT !.lookupFailed = failed, !.doc = seenDoc, !.lookupAt = now,
                            !.seen = Len(store), !.storeReads = c.storeReads + 1,
                            !.cached = cached]
         IN  calls' = [calls EXCEPT ![i] =
                 IF cached # None
                 THEN [Finish(l, "OK", "") EXCEPT !.response = cached]
                 ELSE [l EXCEPT !.pc = "fetch"]]
    /\ UNCHANGED <<now, store, ttl, grpcKey, owKey, ticks, q>>

Fetch_NegativeCaching(i) ==
    /\ calls[i].pc = "fetch"
    /\ \E x \in CurrentExchanges :
         LET c == calls[i]
             r == fetch_weather_from_openweather(owKey, x)
             f == IF owKey = "" THEN c
                  ELSE [c EXCEPT !.x = x, !.providerCalls = c.providerCalls + 1]
         IN  /\ calls' = [calls EXCEPT ![i] =
                    IF r.raises # ""
                    THEN Finish(f, FetchAbort(r).status, FetchAbort(r).details)
                    ELSE [f EXCEPT !.pc = "save",
                                   !.response = BuildResponse(r.value, c.city_input, now)]]
             /\ store' = IF r.raises # ""
                         THEN save_weather_record(store, c.cache_key, [city |-> c.city_input], now)
                         ELSE store
    /\ UNCHANGED <<now, ttl, grpcKey, owKey, ticks, q>>

Fetch_Retrying(i) ==
    /\ calls[i].pc = "fetch"
    /\ \E x \in CurrentExchanges :
         LET c == calls[i]
             r == fetch_weather_from_openweather(owKey, x)
             f == IF owKey = "" THEN c
                  ELSE [c EXCEPT !.x = x, !.providerCalls = c.providerCalls + 1]
         IN  calls' = [calls EXCEPT ![i] =
                 IF r.raises # "" /\ owKey # "" /\ c.providerCalls = 0
                 THEN f
                 ELSE IF r.raises # ""
                 THEN Finish(f, FetchAbort(r).status, FetchAbort(r).details)
                 ELSE [f EXCEPT !.pc = "save",
                                !.response = BuildResponse(r.value, c.city_input, now)]]
    /\ UNCHANGED <<now, store, ttl, grpcKey, owKey, ticks, q>>

\* GetCurrentWeather, step 2: fetch_weather_from_openweather and the response
Fetch(i) ==
    /\ calls[i].pc = "fetch"
    /\ \E x \in CurrentExchanges :
         LET c == calls[i]
             r == fetch_weather_from_openweather(owKey, x)
             f == IF owKey = "" THEN c
                  ELSE [c EXCEPT !.x = x, !.providerCalls = c.providerCalls + 1]
         IN  calls' = [calls EXCEPT ![i] =
                 IF r.raises # ""
                 THEN Finish(f, FetchAbort(r).status, FetchAbort(r).details)
                 ELSE [f EXCEPT !.pc = "save",
                                !.response = BuildResponse(r.value, c.city_input, now)]]
    /\ UNCHANGED <<now, store, ttl, grpcKey, owKey, ticks, q>>

\* the payload GetCurrentWeather hands to save_weather_record
Payload(response) ==
    [city |-> response.city,
     temperature_celsius |-> response.temperature_celsius,
     description |-> response.description,
     humidity |-> response.humidity,
     wind_speed |-> response.wind_speed,
     timestamp |-> response.timestamp]

Save_Surfacing(i) ==
    /\ calls[i].pc = "save"
    /\ \E failed \in BOOLEAN :
         LET c == calls[i]
         IN  /\ store' = IF failed THEN store
                         ELSE save_weather_record(store, c.cache_key, Payload(c.response), now)
             /\ calls' = [calls EXCEPT ![i] =
                    IF failed
                    THEN [Finish(c, "UNKNOWN", "insert failed") EXCEPT
                               !.saveFailed = TRUE, !.response = None]
                    ELSE [Finish(c, "OK", "") EXCEPT !.inserts = c.inserts + 1]]
    /\ UNCHANGED <<now, ttl, grpcKey, owKey, ticks, q>>

\* GetCurrentWeather, step 3: save_weather_record (a failure is logged only)
\* and the return of the response
Save(i) ==
    /\ calls[i].pc = "save"
    /\ \E failed \in BOOLEAN :
         LET c == calls[i]
         IN  /\ store' = IF failed THEN store
                         ELSE save_weather_record(store, c.cache_key, Payload(c.response), now)
             /\ calls' = [calls EXCEPT ![i] =
                    [Finish(c, "OK", "") EXCEPT
                        !.saveFailed = failed,
                        !.inserts = IF failed THEN c.inserts ELSE c.inserts + 1]]
    /\ UNCHANGED <<now, ttl, grpcKey, owKey, ticks, q>>

Forecast_Persisting(i) ==
    /\ calls[i].pc = "forecast"
    /\ \E x \in ForecastExchanges :
         LET c == calls[i]
             f == [c EXCEPT !.x = x, !.providerCalls = c.providerCalls + 1]
         IN  calls' = [calls EXCEPT ![i] =
                 IF owKey = "" THEN Finish(c, "UNAVAILABLE", "Missing OPENWEATHER_API_KEY")
                 ELSE IF x.kind = "exception"
                      THEN Finish(f, "UNAVAILABLE", "Error calling OpenWeatherMap")
                 ELSE IF x.status = 404 THEN Finish(f, "NOT_FOUND", "City not found")
                 ELSE IF x.status # 200 THEN Finish(f, "UNAVAILABLE", "OpenWeatherMap API error")
                 ELSE IF x.kind = "badjson" THEN Finish(f, "UNKNOWN", "Expecting value")
                 ELSE IF \E n \in 1..Len(Truncate(Get(x.body, "list", <<>>), FORECAST_STEPS_3H)) :
                            EntryRaises(x.body["list"][n])
                      THEN Finish(f, "UNKNOWN", "TypeError")
                 ELSE [Finish(f, "OK", "") EXCEPT !.response = BuildForecast(x.body, c.city_input)]]
    /\ store' = IF calls'[i].status = "OK"
                THEN Append(store, [cache_key |-> CacheKey(calls[i].city_input),
                                    created_at |-> Num(now)])
                ELSE store
    /\ UNCHANGED <<now, ttl, grpcKey, owKey, ticks, q>>

\* GetForecast after the gate: the provider request and the response
Forecast(i) ==
    /\ calls[i].pc = "forecast"
    /\ \E x \in ForecastExchanges :
         LET c == calls[i]
             f == [c EXCEPT !.x = x, !.providerCalls = c.providerCalls + 1]
         IN  calls' = [calls EXCEPT ![i] =
                 IF owKey = "" THEN Finish(c, "UNAVAILABLE", "Missing OPENWEATHER_API_KEY")
                 ELSE IF x.kind = "exception"
                      THEN Finish(f, "UNAVAILABLE", "Error calling OpenWeatherMap")
                 ELSE IF x.status = 404 THEN Finish(f, "NOT_FOUND", "City not found")
                 ELSE IF x.status # 200 THEN Finish(f, "UNAVAILABLE", "OpenWeatherMap API error")
                 ELSE IF x.kind = "badjson" THEN Finish(f, "UNKNOWN", "Expecting value")
                 ELSE IF \E n \in 1..Len(Truncate(Get(x.body, "list", <<>>), FORECAST_STEPS_3H)) :
                            EntryRaises(x.body["list"][n])
                      THEN Finish(f, "UNKNOWN", "TypeError")
                 ELSE [Finish(f, "OK", "") EXCEPT !.response = BuildForecast(x.body, c.city_input)]]
    /\ UNCHANGED <<now, store, ttl, grpcKey, owKey, ticks, q>>

Next ==
    \/ Tick
    \/ \E i \in CallIds : Call(i)
    \/ \E i \in CallIds : CacheLookup(i)
    \/ \E i \in CallIds : Fetch(i)
    \/ \E i \in CallIds : Save(i)
    \/ \E i \in CallIds : Forecast(i)

Spec == Init /\ [][Next]_vars

\* the steps of one call; each call runs on its own worker thread of the
\* server's pool, so a call that can take a step eventually takes it
ServeCall(i) == Call(i) \/ CacheLookup(i) \/ Fetch(i) \/ Save(i) \/ Forecast(i)

\* the collection at start: empty, so that every lookup misses, or holding a
\* record of the city asked for, so that a lookup can hit
LiveStores == {<<>>, <<StoredDoc(<<"a">>, <<"A">>, Num(0))>>}

InitLive ==
    /\ now = 0
    /\ store \in LiveStores
    /\ ttl \in 0..MaxTTL
    /\ grpcKey \in {"", "k"}
    /\ owKey \in {"", "ow"}
    /\ calls \in Workloads
    /\ ticks = 0
    /\ q = NoQuery

SpecLive == InitLive /\ [][Next]_vars /\ \A i \in CallIds : WF_vars(ServeCall(i))

-----------------------------------------------------------------------------
(* The service called for one city written in different ways *)

\* ways of writing the city of Twin
VariantCities == {<<"A">>, <<"a", " ">>}

\* a GetCurrentWeather call for a variant of the city, or a GetForecast
\* call, next to Twin
VariantWorkloads ==
    {<<Arriving("GetCurrentWeather", c, "k"), Twin>> : c \in VariantCities}
        \cup {<<Arriving("GetForecast", <<"A">>, "k"), Twin>>}

InitVariants ==
    /\ now = 0
    /\ store \in {st \in InitStores : Len(st) <= 1}
    /\ ttl \in 0..MaxTTL
    /\ grpcKey = "k"
    /\ owKey = "ow"
    /\ calls \in VariantWorkloads
    /\ ticks = 0
    /\ q = NoQuery

SpecVariants == InitVariants /\ [][Next]_vars

-----------------------------------------------------------------------------
(* The store adapter called directly, as the gateway and the service do *)

IdleService ==
    /\ ttl = 0
    /\ grpcKey = "k"
    /\ owKey = "ow"
    /\ calls = [i \in CallIds |-> IdleCall]
    /\ ticks = 0

InitStore ==
    /\ now = 0
    /\ store \in InitStores
    /\ q = NoQuery
    /\ IdleService

\* a query reads only: what can follow it can also happen without it, so a
\* run of direct calls ends with its query
Open == q.fn # "history"

\* an hour passes
TickHour ==
    /\ Open
    /\ ticks < MaxHourTicks
    /\ now' = now + 3600
    /\ ticks' = ticks + 1
    /\ UNCHANGED <<store, ttl, grpcKey, owKey, calls, q>>

\* payloads handed to save_weather_record: the one of GetCurrentWeather, and
\* payloads that bring their own created_at and cache_key
SavePayloads ==
    {[city |-> <<"A">>, temperature_celsius |-> 20],
     [city |-> <<"A">>, created_at |-> Num(7200)],
     [city |-> <<"a">>, created_at |-> BadStr, cache_key |-> <<"A", " ">>]}

DirectSave ==
    /\ Open
    /\ Len(store) < MaxStore
    /\ \E cache_key \in {<<"a">>, <<"a", "a">>}, payload \in SavePayloads :
         /\ store' = save_weather_record(store, cache_key, payload, now)
         /\ q' = [fn |-> "save", cache_key |-> cache_key, payload |-> payload, at |-> now]
    /\ UNCHANGED <<now, ttl, grpcKey, owKey, calls, ticks>>

\* cities asked for: as stored, in another case, with whitespace around, with
\* no record, empty
HistoryCities == {<<"A">>, <<"a">>, <<" ", "A">>, <<"a", "a">>, <<>>}

DirectHistory ==
    /\ Open
    /\ \E city \in HistoryCities, limit \in 1..MaxLimit, hours \in {NoHours} \cup 1..MaxHours :
         \E result \in get_weather_history(store, city, limit, hours, now) :
            q' = [fn |-> "history", city |-> city, limit |-> limit, hours |-> hours,
                  at |-> now, result |-> result]
    /\ UNCHANGED <<now, store, ttl, grpcKey, owKey, calls, ticks>>

NextStore == TickHour \/ DirectSave \/ DirectHistory

SpecStore == InitStore /\ [][NextStore]_vars

-----------------------------------------------------------------------------
(* The three places that derive a cache key, applied to two cities *)

InitKeys ==
    /\ now = 0
    /\ store = <<>>
    /\ q \in {[fn |-> "cities", c1 |-> c1, c2 |-> c2] : c1, c2 \in Strings}
    /\ IdleService

DeriveKeys ==
    /\ q.fn = "cities"
    /\ q' = [fn |-> "keys", c1 |-> q.c1, c2 |-> q.c2,
             rpc1 |-> CacheKey(CityInput(q.c1)),
             rpc2 |-> CacheKey(CityInput(q.c2)),
             history1 |-> HistoryKey(q.c1),
             history2 |-> HistoryKey(q.c2),
             latest1 |-> LatestKey(q.c1),
             latest2 |-> LatestKey(q.c2),
             \* each place applied to a key another place derived
             rpcAgain |-> CacheKey(CityInput(HistoryKey(q.c1))),
             historyAgain |-> HistoryKey(LatestKey(q.c1)),
             latestAgain |-> LatestKey(CacheKey(CityInput(q.c1)))]
    /\ UNCHANGED <<now, store, ttl, grpcKey, owKey, calls, ticks>>

NextKeys == DeriveKeys

SpecKeys == InitKeys /\ [][NextKeys]_vars

-----------------------------------------------------------------------------
(* The extraction of the fields of a provider answer, applied to one answer *)

\* a dict in which key k is absent, or present with one of the values
Opt(k, values) == {<<>>} \cup {k :> v : v \in values}

\* the parts of an answer: each number absent, null or given; the weather
\* list absent, empty, with an entry without description, with a description
MainDicts ==
    {Spread(t, h) : t \in Opt("temp", {Missing, Num(20)}),
                    h \in Opt("humidity", {Missing, Num(60)})}
WindDicts == Opt("speed", {Missing, Num(3)})
WeatherLists == {<<>>, <<[id |-> 800]>>, <<[description |-> "clear sky"]>>}
AnswerParts ==
    {Spread(Spread(m, w), d) : m \in Opt("main", MainDicts),
                               w \in Opt("weather", WeatherLists),
                               d \in Opt("wind", WindDicts)}

\* bodies of a 200 answer to the current-weather request and to the
\* forecast request (one step)
ExtractCurrent == {Spread([name |-> <<"A">>], p) : p \in AnswerParts}
ExtractForecast ==
    {[city |-> [name |-> <<"A">>], list |-> <<Spread([dt_txt |-> 1], p)>>] : p \in AnswerParts}

\* the loop of GetForecast over the kept steps: the response, or the
\* TypeError of float(None) / int(None)
ForecastEntries(data, city_input) ==
    IF \E n \in 1..Len(Truncate(Get(data, "list", <<>>), FORECAST_STEPS_3H)) :
           EntryRaises(data["list"][n])
    THEN Raises("TypeError", "not NoneType")
    ELSE Returns(BuildForecast(data, city_input))

InitExtract ==
    /\ now = 0
    /\ store = <<>>
    /\ q \in {[fn |-> "answer", op |-> "GetCurrentWeather", body |-> b] : b \in ExtractCurrent}
            \cup {[fn |-> "answer", op |-> "GetForecast", body |-> b] : b \in ExtractForecast}
    /\ IdleService

\* the handler builds its response from the answer
Extract ==
    /\ q.fn = "answer"
    /\ q' = [fn |-> "extracted", op |-> q.op, body |-> q.body,
             out |-> IF q.op = "GetCurrentWeather"
                     THEN Returns(BuildResponse(q.body, <<"A">>, now))
                     ELSE ForecastEntries(q.body, <<"A">>)]
    /\ UNCHANGED <<now, store, ttl, grpcKey, owKey, calls, ticks>>

NextExtract == Extract

SpecExtract == InitExtract /\ [][NextExtract]_vars

-----------------------------------------------------------------------------
(* Gateway: api/app.py *)

\* a query parameter: absent, or given with a text
NoParam == [given |-> FALSE, text |-> <<>>]
Param(text) == [given |-> TRUE, text |-> text]

\* int(raw): optional whitespace around an optional sign and decimal digits
Digits == {"0", "1", "2", "5"}
DigitValue(c) == CASE c = "0" -> 0 [] c = "1" -> 1 [] c = "2" -> 2 [] OTHER -> 5

RECURSIVE DigitsValue(_)
DigitsValue(s) ==
    IF s = <<>> THEN 0
    ELSE 10 * DigitsValue(SubSeq(s, 1, Len(s) - 1)) + DigitValue(s[Len(s)])

AllDigits(s) == s # <<>> /\ \A n \in 1..Len(s) : s[n] \in Digits

IsIntText(raw) ==
    LET s == Strip(raw)
    IN  \/ AllDigits(s)
        \/ s # <<>> /\ s[1] \in {"-", "+"} /\ AllDigits(Tail(s))

IntValue(raw) ==
    LET s == Strip(raw)
    IN  IF s[1] = "-" THEN 0 - DigitsValue(Tail(s))
        ELSE IF s[1] = "+" THEN DigitsValue(Tail(s))
        ELSE DigitsValue(s)

_parse_int_NonNegative(name, raw, default, min_value) ==
    IF ~raw.given THEN Returns(default)
    ELSE IF ~IsIntText(raw.text) THEN Raises("ValueError", name)
    ELSE IF IntValue(raw.text) < 0 THEN Raises("ValueError", name)
    ELSE Returns(IntValue(raw.text))

\* _parse_int: the value, or ValueError("Invalid '<name>' parameter")
_parse_int(name, raw, default, min_value) ==
    IF ~raw.given THEN Returns(default)
    ELSE IF ~IsIntText(raw.text) THEN Raises("ValueError", name)
    ELSE IF IntValue(raw.text) < min_value THEN Raises("ValueError", name)
    ELSE Returns(IntValue(raw.text))

\* request.args.get("limit", "50")
LimitArg(raw) == IF raw.given THEN raw ELSE Param(<<"5", "0">>)

\* (request.args.get("city") or "").strip()
GatewayCity(raw) == Strip(IF raw.given THEN raw.text ELSE <<>>)

\* isinstance(created_at, (int, float))
IsNumber(c) == c.k = "num"

NeedsRefresh_Filtered(latest_list, history, t, T) ==
    IF history # <<>> THEN FALSE
    ELSE IF latest_list = <<>> THEN TRUE
    ELSE LET created_at == CreatedAt(latest_list[1])
         IN  IF IsNumber(created_at) THEN t - created_at.v > T ELSE TRUE

\* needs_refresh, decided at time t on the result of the latest-record read
\* (history, the list read with the 'hours' filter, plays no part)
NeedsRefresh(latest_list, history, t, T) ==
    IF latest_list = <<>> THEN TRUE
    ELSE LET created_at == CreatedAt(latest_list[1])
         IN  IF IsNumber(created_at) THEN t - created_at.v > T ELSE TRUE

\* an HTTP request as it arrives
HttpRequest(fn, city, limit, hours, key) ==
    [fn |-> fn, pc |-> "new", city |-> city, limitRaw |-> limit, hoursRaw |-> hours,
     key |-> key,                      \* GRPC_API_KEY of the gateway process
     cityArg |-> <<>>, limit |-> 0, hours |-> NoHours,
     history |-> <<>>, latestFailed |-> FALSE, latest_list |-> <<>>,
     decidedAt |-> 0, seen |-> 0, needs_refresh |-> FALSE,
     rereadFailed |-> FALSE,
     http |-> 0, error |-> "", code |-> "", details |-> "", data |-> <<>>,
     storeReads |-> 0, rpcCalls |-> 0]

\* jsonify(...), status
Respond(r, http, error, code, details, data) ==
    [r EXCEPT !.pc = "done", !.http = http, !.error = error, !.code = code,
              !.details = details, !.data = data]

\* weather_history_route / forecast_route up to the first access to the
\* store or the RPC service: the query parameters
GwValidate ==
    /\ q.fn \in {"weather", "forecast"} /\ q.pc = "new"
    /\ LET city == GatewayCity(q.city)
           limit == _parse_int("limit", LimitArg(q.limitRaw), 50, 1)
           hours == _parse_int("hours", q.hoursRaw, NoHours, 1)
       IN  q' = IF city = <<>>
                THEN Respond(q, 400, "Missing 'city' query parameter", "", "", <<>>)
                ELSE IF q.fn = "forecast" THEN [q EXCEPT !.pc = "rpc", !.cityArg = city]
                ELSE IF limit.raises # ""
                     THEN Respond(q, 400, "Invalid 'limit' parameter", "", "", <<>>)
                ELSE IF hours.raises # ""
                     THEN Respond(q, 400, "Invalid 'hours' parameter", "", "", <<>>)
                ELSE [q EXCEPT !.pc = "read", !.cityArg = city,
                               !.limit = limit.value, !.hours = hours.value]
    /\ UNCHANGED <<now, store, ttl, grpcKey, owKey, calls, ticks>>

GwRead_Expiring ==
    /\ q.fn = "weather" /\ q.pc = "read"
    /\ \E failed \in BOOLEAN,
          result \in get_weather_history(store, q.cityArg, q.limit, q.hours, now) :
         LET r == [q EXCEPT !.storeReads = q.storeReads + 1,
                            !.decidedAt = now, !.seen = Len(store)]
         IN  q' = IF failed THEN Respond(r, 500, "Database error", "", "", <<>>)
                  ELSE [r EXCEPT !.pc = "latest", !.history = result]
    /\ LET Kept(d) == CreatedAt(d).k # "num" \/ now - CreatedAt(d).v <= ttl
       IN  store' = SelectSeq(store, Kept)
    /\ UNCHANGED <<now, ttl, grpcKey, owKey, calls, ticks>>

\* weather_history_route, step 1: the history the caller asked for
GwRead ==
    /\ q.fn = "weather" /\ q.pc = "read"
    /\ \E failed \in BOOLEAN,
          result \in get_weather_history(store, q.cityArg, q.limit, q.hours, now) :
         LET r == [q EXCEPT !.storeReads = q.storeReads + 1,
                            !.decidedAt = now, !.seen = Len(store)]
         IN  q' = IF failed THEN Respond(r, 500, "Database error", "", "", <<>>)
                  ELSE [r EXCEPT !.pc = "latest", !.history = result]
    /\ UNCHANGED <<now, store, ttl, grpcKey, owKey, calls, ticks>>

\* weather_history_route, step 2: the latest record whatever 'hours' is, and
\* the decision to refresh
GwLatest ==
    /\ q.fn = "weather" /\ q.pc = "latest"
    /\ \E failed \in BOOLEAN,
          result \in get_weather_history(store, q.cityArg, 1, NoHours, now) :
         LET latest_list == IF failed THEN <<>> ELSE result
             needs_refresh == NeedsRefresh(latest_list, q.history, now, ttl)
             d == [q EXCEPT !.latestFailed = failed, !.latest_list = latest_list,
                            !.decidedAt = now, !.seen = Len(store),
                            !.needs_refresh = needs_refresh,
                            !.storeReads = q.storeReads + 1]
         IN  q' = IF needs_refresh THEN [d EXCEPT !.pc = "rpc"]
                  ELSE Respond(d, 200, "", "", "", q.history)
    /\ UNCHANGED <<now, store, ttl, grpcKey, owKey, calls, ticks>>

\* call_grpc_current_weather / call_grpc_forecast: the request is sent
GwCallRpc ==
    /\ q.fn \in {"weather", "forecast"} /\ q.pc = "rpc"
    /\ calls[1].pc = "idle"
    /\ \E reachable \in BOOLEAN :
         LET op == IF q.fn = "weather" THEN "GetCurrentWeather" ELSE "GetForecast"
             sent == [q EXCEPT !.rpcCalls = q.rpcCalls + 1]
         IN  IF q.key = ""
             THEN \* _grpc_api_key raises RuntimeError
                  /\ q' = Respond(q, 500, "GRPC_API_KEY not configured on API service",
                                  "", "", <<>>)
                  /\ calls' = calls
             ELSE IF ~reachable
             THEN \* the channel cannot reach the service: grpc.RpcError
                  /\ q' = Respond(sent, 502, "gRPC error", "UNAVAILABLE",
                                  "failed to connect", <<>>)
                  /\ calls' = calls
             ELSE /\ q' = [sent EXCEPT !.pc = "wait"]
                  /\ calls' = [calls EXCEPT ![1] = Arriving(op, q.cityArg, q.key)]
    /\ UNCHANGED <<now, store, ttl, grpcKey, owKey, ticks>>

\* the entries of a ForecastResponse as forecast_route reshapes them
Reshape(entries) ==
    [n \in 1..Len(entries) |->
        [timestamp |-> entries[n].timestamp,
         temperature_celsius |-> entries[n].temperature_celsius,
         description |-> entries[n].description,
         humidity |-> entries[n].humidity,
         wind_speed |-> entries[n].wind_speed]]

\* the RPC returned: the re-read of the history (weather_history_route,
\* step 3) or the reshaped forecast, and the HTTP response
GwReturn ==
    /\ q.fn \in {"weather", "forecast"} /\ q.pc = "wait"
    /\ calls[1].pc = "done"
    /\ \E failed \in BOOLEAN,
          result \in get_weather_history(store, q.cityArg, q.limit, q.hours, now) :
         q' = IF calls[1].status # "OK"
              THEN Respond(q, 502, "gRPC error", calls[1].status, calls[1].details, <<>>)
              ELSE IF q.fn = "forecast"
                   THEN Respond(q, 200, "", "", "", Reshape(calls[1].response.entries))
              ELSE IF failed
                   THEN Respond([q EXCEPT !.rereadFailed = TRUE,
                                          !.storeReads = q.storeReads + 1],
                                500, "Failed to fetch current weather via gRPC", "", "", <<>>)
              ELSE Respond([q EXCEPT !.storeReads = q.storeReads + 1],
                           200, "", "", "", result)
    /\ UNCHANGED <<now, store, ttl, grpcKey, owKey, calls, ticks>>

\* texts of 'limit' and 'hours' that are not positive integers, and some that are
BadInts == {Param(<<"0">>), Param(<<"-", "1">>), Param(<<"x">>), Param(<<>>), Param(<<"1", "x">>)}
GoodInts == {NoParam, Param(<<"1">>), Param(<<" ", "2">>)}
GatewayCities == {NoParam, Param(<<" ">>), Param(<<" ", "A">>)}
GatewayKeys == {"", "k", "x"}

\* the clock when a request arrives: with the stored records, or more than
\* an hour after them
StartTimes == {0, 3601}

\* a run: the HTTP request, the call made directly to the service, the times
\* at which the request can arrive and the collections it can find
Workload(r, direct, times, stores) ==
    [q |-> r, calls |-> <<IdleCall, direct>>, times |-> times, stores |-> stores]

\* the collection of the runs with a concurrent call
ConcurrentStores == {<<>>}

\* one HTTP request, alone or while a GetCurrentWeather call made directly to
\* the service is being served
GatewayWorkloads ==
    {Workload(HttpRequest(fn, city, NoParam, NoParam, "k"), IdleCall, {0}, InitStores) :
        fn \in {"weather", "forecast"}, city \in GatewayCities}
    \cup {Workload(HttpRequest(fn, Param(<<" ", "A">>), NoParam, NoParam, key), IdleCall, {0}, InitStores) :
            fn \in {"weather", "forecast"}, key \in GatewayKeys}
    \cup {Workload(HttpRequest("weather", Param(<<" ", "A">>), limit, hours, "k"),
                   IdleCall, StartTimes, InitStores) :
            limit \in GoodInts, hours \in {Param(<<"1">>)}}
    \cup {Workload(HttpRequest("weather", Param(<<" ", "A">>), limit, NoParam, "k"),
                   IdleCall, {0}, InitStores) : limit \in BadInts}
    \cup {Workload(HttpRequest("weather", Param(<<" ", "A">>), NoParam, hours, "k"),
                   IdleCall, {0}, InitStores) : hours \in BadInts}
    \cup {Workload(HttpRequest("weather", Param(<<" ", "A">>), NoParam, NoParam, "k"),
                   Twin, {0}, ConcurrentStores)}

InitGateway ==
    /\ ttl \in 0..MaxTTL
    /\ grpcKey = "k"
    /\ owKey = "ow"
    /\ ticks = 0
    /\ \E w \in GatewayWorkloads : q = w.q /\ calls = w.calls /\ now \in w.times /\ store \in w.stores

NextGateway ==
    \/ Tick
    \/ GwValidate
    \/ GwRead
    \/ GwLatest
    \/ GwCallRpc
    \/ GwReturn
    \/ \E i \in CallIds : Call(i)
    \/ \E i \in CallIds : CacheLookup(i)
    \/ \E i \in CallIds : Fetch(i)
    \/ \E i \in CallIds : Save(i)
    \/ \E i \in CallIds : Forecast(i)

SpecGateway == InitGateway /\ [][NextGateway]_vars

-----------------------------------------------------------------------------
(* Vocabulary of the properties *)

Entered(c) == c.pc \notin {"idle", "new"}
Done(c) == c.pc = "done"
Current(c) == c.op = "GetCurrentWeather"
LookedUp(c) == Current(c) /\ c.storeReads > 0

\* the caller presented the configured credential
Authenticated(c) == grpcKey # "" /\ c.received = grpcKey

\* the city is empty or consists of whitespace only
Blank(city) == \A n \in 1..Len(city) : city[n] \in Whitespace

\* the collection as it was when call c looked up its cache key (the
\* collection only grows at its end)
StoreAtLookup(c) == SubSeq(store, 1, c.seen)

\* the documents of st under exactly the key, and the most recent of them
Under(st, key) ==
    {n \in 1..Len(st) : "cache_key" \in DOMAIN st[n] /\ st[n]["cache_key"] = key}
Latest(st, key) ==
    {st[n] : n \in {m \in Under(st, key) : \A o \in Under(st, key) : ~Newer(st[o], st[m])}}

\* created_at is a number, or a string that reads as one
Numeric(d) == CreatedAt(d).k \in {"num", "numstr"}
UsableAt(d, t) == Numeric(d) /\ t - CreatedAt(d).v <= ttl

\* the key a city stands for: trimmed, lower case
KeyOf(c) == Lower(Strip(c.city))

ResponseFields ==
    {"city", "temperature_celsius", "description", "humidity", "wind_speed", "timestamp"}
ValuesOf(response, d) == \A f \in ResponseFields \cap DOMAIN d : response[f] = d[f]

-----------------------------------------------------------------------------
(* C1 *)

\* C1 as stated: the Freshness Cache reports fresh iff the collection holds a
\* latest record for the cache key whose created_at is numeric and whose age
\* is at most TTL
C1_AsStated ==
    \A i \in CallIds : LookedUp(calls[i]) =>
        LET c == calls[i]
        IN  (c.cached # None) <=>
                \E d \in Latest(StoreAtLookup(c), KeyOf(c)) : UsableAt(d, c.lookupAt)

\* C1: the Freshness Cache reports fresh (returns a response) iff the lookup
\* of the latest record does not fail, it yields a record for the cache key,
\* that record's created_at is numeric and now - created_at <= TTL; in every
\* other case it returns None
C1_FreshIff ==
    \A i \in CallIds : LookedUp(calls[i]) =>
        LET c == calls[i]
        IN  (c.cached # None) <=>
                /\ ~c.lookupFailed
                /\ c.doc \in Latest(StoreAtLookup(c), KeyOf(c))
                /\ UsableAt(c.doc, c.lookupAt)

\* one lookup finds a record of age exactly TTL and reports fresh, another
\* finds a record of age TTL + 1 and reports stale
C1_Witness ==
    /\ LookedUp(calls[1]) /\ LookedUp(calls[2])
    /\ calls[1].cached # None
    /\ calls[1].lookupAt - CreatedAt(calls[1].doc).v = ttl
    /\ calls[2].cached = None /\ calls[2].doc # None /\ Numeric(calls[2].doc)
    /\ calls[2].lookupAt - CreatedAt(calls[2].doc).v = ttl + 1

-----------------------------------------------------------------------------
(* C2 *)

\* the collection held, when call c looked its key up, a latest record for
\* the key that was no older than TTL
FreshInStore(c) ==
    \E d \in Latest(StoreAtLookup(c), KeyOf(c)) : UsableAt(d, c.lookupAt)

\* the call was answered from the record it looked up: same values, no
\* provider call, no insert
ServedFromCache(c) ==
    /\ Done(c) /\ c.status = "OK"
    /\ c.doc \in Latest(StoreAtLookup(c), KeyOf(c))
    /\ ValuesOf(c.response, c.doc)
    /\ c.providerCalls = 0
    /\ c.inserts = 0

-----------------------------------------------------------------------------
(* C3 *)

\* the call found no fresh record
Miss(c) ==
    /\ LookedUp(c) /\ Authenticated(c) /\ ~Blank(c.city)
    /\ ~FreshInStore(c)

\* the provider answered the call with status 200 and a JSON body
Fetched(c) == c.x.kind = "response" /\ c.x.status = 200

\* a miss goes on to the provider and succeeds only with the provider's answer
GoesToProvider(c) ==
    /\ c.cached = None
    /\ c.pc \in {"fetch", "save", "done"}
    /\ (Done(c) /\ c.status = "OK") => Fetched(c)

\* the call found no fresh record and its provider fetch succeeded
MissAndFetched(c) == Miss(c) /\ Fetched(c) /\ Done(c)

\* the response carries the values of the provider's answer, read at the
\* time of the fetch
FreshValues(c) ==
    /\ c.providerCalls = 1
    /\ c.status = "OK"
    /\ c.response = BuildResponse(c.x.body, Strip(c.city), c.response.timestamp)
    /\ c.response.timestamp >= c.lookupAt

\* the documents call c appended: after those it saw, under its key, with
\* the values of its response
AppendedBy(c) ==
    {n \in (c.seen + 1)..Len(store) :
        /\ DOMAIN store[n] = ResponseFields \cup {"cache_key", "created_at"}
        /\ store[n]["cache_key"] = KeyOf(c)
        /\ ValuesOf(c.response, store[n])
        /\ CreatedAt(store[n]).k = "num"
        /\ CreatedAt(store[n]).v >= c.response.timestamp}

\* C3 as stated: a GetCurrentWeather that finds no fresh record performs a
\* provider fetch and, if the fetch succeeds, appends exactly one new record
\* under the normalized cache key and returns the freshly fetched values
C3_AsStated ==
    \A i \in CallIds :
        /\ Miss(calls[i]) => GoesToProvider(calls[i])
        /\ MissAndFetched(calls[i]) =>
            /\ FreshValues(calls[i])
            /\ calls[i].inserts = 1
            /\ AppendedBy(calls[i]) # {}

\* no step changes or removes a document; a step adds at most one, at the end
AppendOnlyStep ==
    /\ Len(store') \in {Len(store), Len(store) + 1}
    /\ SubSeq(store', 1, Len(store)) = store

\* C3: a GetCurrentWeather that finds no fresh record performs a provider
\* fetch and, if the fetch succeeds, returns the freshly fetched values (not
\* the stale stored ones) and makes exactly one insert under the normalized
\* cache key, which appends one new record unless the store rejects it (then
\* none is appended); no existing record is ever modified
C3_MissRefreshes ==
    /\ [](\A i \in CallIds :
            /\ Miss(calls[i]) => GoesToProvider(calls[i])
            /\ MissAndFetched(calls[i]) =>
                /\ FreshValues(calls[i])
                /\ calls[i].inserts = (IF calls[i].saveFailed THEN 0 ELSE 1)
                /\ ~calls[i].saveFailed => AppendedBy(calls[i]) # {})
    /\ [][AppendOnlyStep]_vars
    /\ [][\A i \in CallIds :
            (calls[i].pc = "save" /\ calls'[i].pc = "done") =>
                Len(store') = Len(store) + (IF calls'[i].saveFailed THEN 0 ELSE 1)]_vars

\* a call finds a stale record (older than TTL), fetches, and its new record
\* sits in the collection after the stale one
C3_Witness ==
    \E i \in CallIds :
        /\ MissAndFetched(calls[i])
        /\ calls[i].doc # None /\ Numeric(calls[i].doc)
        /\ calls[i].lookupAt - CreatedAt(calls[i].doc).v > ttl
        /\ ~calls[i].saveFailed
        /\ AppendedBy(calls[i]) # {}
        /\ calls[i].response["temperature_celsius"] # calls[i].doc["temperature_celsius"]

-----------------------------------------------------------------------------
(* C4 *)

\* the call ended in the gate: it read and wrote nothing
Rejected(c, status) ==
    /\ Done(c) /\ c.status = status
    /\ c.response = None
    /\ c.storeReads = 0 /\ c.providerCalls = 0 /\ c.inserts = 0

\* C4: with the expected credential configured, for GetCurrentWeather and
\* GetForecast alike, a call with no or an empty x-api-key fails with
\* UNAUTHENTICATED and a call whose x-api-key is present but differs from the
\* configured value fails with PERMISSION_DENIED, whatever the city (an empty
\* one included), the collection and the provider
C4_AuthGate ==
    \A i \in CallIds : (Entered(calls[i]) /\ grpcKey # "") =>
        /\ calls[i].received \in {Absent, ""} => Rejected(calls[i], "UNAUTHENTICATED")
        /\ calls[i].received \notin {Absent, "", grpcKey}
                => Rejected(calls[i], "PERMISSION_DENIED")

\* GetForecast with a blank city and a wrong credential is refused with
\* PERMISSION_DENIED while an authenticated call is being served
C4_Witness ==
    /\ grpcKey # ""
    /\ calls[1].op = "GetForecast" /\ Blank(calls[1].city)
    /\ calls[1].received = "x" /\ calls[1].status = "PERMISSION_DENIED"
    /\ Done(calls[1])
    /\ calls[2].pc = "fetch"

-----------------------------------------------------------------------------
(* C5 *)

\* C5: when GRPC_API_KEY is not configured, every GetCurrentWeather and
\* GetForecast call fails with the configuration error before the caller's
\* credential is read, whatever that credential is
C5_FailsClosed ==
    \A i \in CallIds : (Entered(calls[i]) /\ grpcKey = "") =>
        /\ Rejected(calls[i], "UNKNOWN")
        /\ calls[i].details = "Missing GRPC_API_KEY"
        /\ ~calls[i].inspected

\* a call without credential and a call with a credential both fail closed
C5_Witness ==
    /\ grpcKey = ""
    /\ Done(calls[1]) /\ calls[1].received = Absent /\ calls[1].status = "UNKNOWN"
    /\ Done(calls[2]) /\ calls[2].received = "k" /\ calls[2].status = "UNKNOWN"

-----------------------------------------------------------------------------
(* C6 *)

\* C6: with the correct credential, a GetCurrentWeather or GetForecast call
\* whose city is empty or whitespace only fails with INVALID_ARGUMENT without
\* reading the collection or calling the provider
C6_EmptyCity ==
    \A i \in CallIds :
        (Entered(calls[i]) /\ Authenticated(calls[i]) /\ Blank(calls[i].city)) =>
            /\ Rejected(calls[i], "INVALID_ARGUMENT")
            /\ calls[i].details = "City name must not be empty"

\* a whitespace-only city is refused
C6_Witness ==
    \E i \in CallIds :
        /\ Authenticated(calls[i]) /\ calls[i].city = <<" ">>
        /\ calls[i].status = "INVALID_ARGUMENT"

-----------------------------------------------------------------------------
(* C7 *)

\* the call passed the gate and the validation, found no fresh record if it
\* is GetCurrentWeather, and its provider step is over
AfterProvider(c) ==
    /\ Authenticated(c) /\ ~Blank(c.city)
    /\ Current(c) => (LookedUp(c) /\ c.cached = None)
    /\ c.pc \in {"save", "done"}

\* C7: on a cache miss with a correct credential and a non-empty city, for
\* both RPCs: provider status 404 gives NOT_FOUND with detail "City not
\* found"; a transport error or timeout, any other non-200 status, or a
\* missing provider API key gives UNAVAILABLE
C7_ProviderMapping ==
    \A i \in CallIds : AfterProvider(calls[i]) =>
        LET c == calls[i]
        IN  /\ owKey = "" => (Done(c) /\ c.status = "UNAVAILABLE" /\ c.providerCalls = 0)
            /\ (c.x.kind = "response" /\ c.x.status = 404)
                    => (Done(c) /\ c.status = "NOT_FOUND" /\ c.details = "City not found")
            /\ c.x.kind = "exception" => (Done(c) /\ c.status = "UNAVAILABLE")
            /\ (c.x.kind = "response" /\ c.x.status \notin {200, 404})
                    => (Done(c) /\ c.status = "UNAVAILABLE")

\* one run shows 404 -> NOT_FOUND on GetForecast and 500 -> UNAVAILABLE on
\* GetCurrentWeather
C7_Witness ==
    /\ AfterProvider(calls[1]) /\ calls[1].op = "GetForecast"
    /\ calls[1].x.status = 404 /\ calls[1].status = "NOT_FOUND"
    /\ AfterProvider(calls[2]) /\ calls[2].op = "GetCurrentWeather"
    /\ calls[2].x.status = 500 /\ calls[2].status = "UNAVAILABLE"

-----------------------------------------------------------------------------
(* C8 *)

\* C8: save_weather_record stamps created_at with the time of the call and
\* cache_key with its argument for every payload, also one that brings its
\* own created_at or cache_key; the other fields of the payload are kept
C8_InsertStamps ==
    q.fn = "save" =>
        LET doc == store[Len(store)]
        IN  /\ doc["created_at"] = Num(q.at)
            /\ doc["cache_key"] = q.cache_key
            /\ \A f \in DOMAIN q.payload \ {"created_at", "cache_key"} : doc[f] = q.payload[f]
            /\ DOMAIN doc = DOMAIN q.payload \cup {"created_at", "cache_key"}

\* a payload with its own created_at and cache_key was saved at a later time
C8_Witness ==
    /\ q.fn = "save"
    /\ {"created_at", "cache_key"} \subseteq DOMAIN q.payload
    /\ q.payload["created_at"] # Num(q.at)
    /\ q.payload["cache_key"] # q.cache_key
    /\ q.at > 0
    /\ Len(store) > 1

-----------------------------------------------------------------------------
(* C9 *)

CaseVariants(x, y) == x = y \/ {x, y} = {"a", "A"}

Spaces(c, from, to) == \A n \in from..to : c[n] = " "

\* c1 and c2 differ only in letter case or surrounding whitespace: each is a
\* run of spaces, a core, a run of spaces, and the cores agree up to case
SameCity(c1, c2) ==
    \E i \in 0..Len(c1), k \in 0..Len(c2) :
        \E j \in i..Len(c1), l \in k..Len(c2) :
            /\ Spaces(c1, 1, i) /\ Spaces(c1, j + 1, Len(c1))
            /\ Spaces(c2, 1, k) /\ Spaces(c2, l + 1, Len(c2))
            /\ j - i = l - k
            /\ \A n \in 1..(j - i) : CaseVariants(c1[i + n], c2[k + n])

\* C9: the cache key (trim, then lower case) is idempotent and insensitive
\* to case: every place that derives a key (RPC service, history query,
\* latest-record query) maps a key to itself and maps two cities that differ
\* only in letter case or surrounding whitespace to the same key
C9_Normalization ==
    q.fn = "keys" =>
        /\ q.rpcAgain = q.history1
        /\ q.historyAgain = q.latest1
        /\ q.latestAgain = q.rpc1
        /\ q.rpc1 = q.history1 /\ q.history1 = q.latest1
        /\ SameCity(q.c1, q.c2) =>
            /\ q.rpc1 = q.rpc2
            /\ q.history1 = q.history2
            /\ q.latest1 = q.latest2

\* " A" and "a " give the key "a"
C9_Witness ==
    /\ q.fn = "keys"
    /\ q.c1 = <<" ", "A">> /\ q.c2 = <<"a", " ">>
    /\ q.rpc1 = <<"a">> /\ q.history2 = <<"a">> /\ q.latestAgain = <<"a">>

-----------------------------------------------------------------------------
(* C10 *)

\* the documents that match the city: by normalized cache key, or by the
\* city as given, capitalized, in lower case or in upper case
MatchesCity(d, city) ==
    \/ Get(d, "cache_key", <<"?">>) = Lower(Strip(city))
    \/ Get(d, "city", <<"?">>) \in {city, Capitalize(city), Lower(city), Upper(city)}

InWindow(d, hours, t) ==
    hours # NoHours => (CreatedAt(d).k = "num" /\ CreatedAt(d).v >= t - hours * 3600)

Min(a, b) == IF a < b THEN a ELSE b

\* C10: get_weather_history(city, limit, hours) returns at most limit
\* records, newest first by created_at, all matching the city; with hours=H
\* every returned record has created_at >= now - H*3600; with hours omitted
\* the result is the limit most recent matching records, with no age filter
C10_History ==
    q.fn = "history" =>
        LET r == q.result
            M == {n \in 1..Len(store) : MatchesCity(store[n], q.city)}
        IN  /\ Len(r) <= q.limit
            /\ \A i, j \in 1..Len(r) : i < j => ~Newer(r[j], r[i])
            /\ \A i \in 1..Len(r) : MatchesCity(r[i], q.city) /\ InWindow(r[i], q.hours, q.at)
            /\ \E p \in [1..Len(r) -> 1..Len(store)] :
                 /\ \A i, j \in 1..Len(r) : i # j => p[i] # p[j]
                 /\ \A i \in 1..Len(r) : store[p[i]] = r[i]
                 /\ q.hours = NoHours =>
                      /\ Len(r) = Min(q.limit, Cardinality(M))
                      /\ \A m \in M \ {p[i] : i \in 1..Len(r)} :
                            \A i \in 1..Len(r) : ~Newer(store[m], r[i])

\* with hours=1 a query returns the record created exactly 3600 seconds ago
\* and leaves out an older one; limit cuts the list
C10_Witness ==
    /\ q.fn = "history" /\ q.hours = 1
    /\ Len(q.result) = 1
    /\ CreatedAt(q.result[1]) = Num(q.at - 3600)
    /\ \E n \in 1..Len(store) :
         /\ MatchesCity(store[n], q.city)
         /\ CreatedAt(store[n]).k = "num" /\ CreatedAt(store[n]).v < q.at - 3600

-----------------------------------------------------------------------------
(* C11 *)

\* the call's provider fetch succeeded and its insert failed
FetchedNotSaved(c) == Current(c) /\ Done(c) /\ Fetched(c) /\ c.saveFailed

\* C11: when the provider fetch of a GetCurrentWeather succeeds and the
\* insert into the store fails, the call still ends with status OK and the
\* response built from the provider's answer, and the failed insert leaves
\* the collection as it was
C11_InsertFailureSwallowed ==
    /\ [](\A i \in CallIds : FetchedNotSaved(calls[i]) =>
            /\ calls[i].status = "OK" /\ calls[i].details = ""
            /\ calls[i].response =
                  BuildResponse(calls[i].x.body, Strip(calls[i].city),
                                calls[i].response.timestamp)
            /\ calls[i].inserts = 0
            /\ AppendedBy(calls[i]) = {} \/ \E j \in CallIds \ {i} : calls[j].inserts > 0)
    /\ [][\A i \in CallIds :
            (calls[i].pc = "save" /\ calls'[i].pc = "done" /\ calls'[i].saveFailed) =>
                /\ store' = store
                /\ calls'[i].status = "OK"
                /\ calls'[i].response = calls[i].response]_vars

\* a call found the collection empty, fetched a full answer, failed to insert
\* and returned the fetched values; the collection is still empty
C11_Witness ==
    \E i \in CallIds :
        /\ FetchedNotSaved(calls[i])
        /\ calls[i].x.body = FullBody
        /\ calls[i].response["temperature_celsius"] = 20
        /\ calls[i].status = "OK"
        /\ store = <<>>

-----------------------------------------------------------------------------
(* C12 *)

\* both calls are GetCurrentWeather calls for one cache key that made their
\* freshness check on the same collection, before either inserted, and both
\* were told that there is no fresh record
BothMissed ==
    /\ \A i \in CallIds : LookedUp(calls[i]) /\ calls[i].cached = None
    /\ KeyOf(calls[1]) = KeyOf(calls[2])
    /\ calls[1].seen = calls[2].seen

\* the documents under the key that were appended after both lookups
NewUnder(key) == {n \in (calls[1].seen + 1)..Len(store) : Get(store[n], "cache_key", <<>>) = key}

\* the step of call i that its position asks for can be taken
CanStep(i) ==
    /\ calls[i].pc = "new" => ENABLED Call(i)
    /\ calls[i].pc = "cache" => ENABLED CacheLookup(i)
    /\ calls[i].pc = "fetch" => ENABLED Fetch(i)
    /\ calls[i].pc = "save" => ENABLED Save(i)
    /\ calls[i].pc = "forecast" => ENABLED Forecast(i)

\* C12 as stated: two concurrent GetCurrentWeather calls for one cache key
\* that both check freshness before either inserts and both see a stale or
\* missing record both call the provider and both insert, so two new
\* records for the key are appended
C12_AsStated ==
    (BothMissed /\ \A i \in CallIds : Done(calls[i])) =>
        /\ \A i \in CallIds : calls[i].providerCalls = 1 /\ calls[i].inserts = 1
        /\ Cardinality(NewUnder(KeyOf(calls[1]))) = 2

\* C12: the Freshness Cache takes no lock: two concurrent GetCurrentWeather
\* calls for one cache key that both check freshness before either inserts
\* and both see a stale or missing record both go on to the provider fetch,
\* and each one whose fetch succeeds makes its own insert; when both fetches
\* and both inserts succeed, two new records for the key are appended; at no
\* point does a call wait for the other
C12_NoLock ==
    /\ BothMissed =>
        /\ \A i \in CallIds : GoesToProvider(calls[i])
        /\ (\A i \in CallIds : Done(calls[i])) =>
            /\ \A i \in CallIds :
                  calls[i].inserts = (IF Fetched(calls[i]) /\ ~calls[i].saveFailed THEN 1 ELSE 0)
            /\ Cardinality(NewUnder(KeyOf(calls[1]))) = calls[1].inserts + calls[2].inserts
    /\ \A i \in CallIds : CanStep(i)

\* both calls saw the same stale record, both fetched and both inserted: the
\* key has two new records
C12_Witness ==
    /\ BothMissed
    /\ \A i \in CallIds :
          /\ Done(calls[i]) /\ Fetched(calls[i]) /\ calls[i].inserts = 1
          /\ calls[i].doc # None /\ Numeric(calls[i].doc)
    /\ Cardinality(NewUnder(KeyOf(calls[1]))) = 2

-----------------------------------------------------------------------------
(* C14 *)

\* the call is a GetForecast that ended with status OK
ForecastOK(c) == c.op = "GetForecast" /\ Done(c) /\ c.status = "OK"

\* the list of the provider's answer to call c
ProviderList(c) == Get(c.x.body, "list", <<>>)

\* step counts that can be configured: none, fewer than, as many as and more
\* than the provider sends
StepCounts == 0..(FORECAST_STEPS_3H + 2)

\* C14: a successful GetForecast returns exactly min(len(L), N) entries for
\* the provider's list L and the step count N, and entry n is built from
\* L[n]: the first entries of L, in the provider's order; the cut
\* forecast_list[:N] does so for every step count N
C14_ForecastTruncation ==
    \A i \in CallIds : ForecastOK(calls[i]) =>
          LET L == ProviderList(calls[i])
              entries == calls[i].response.entries
          IN  /\ Len(entries) = Min(Len(L), FORECAST_STEPS_3H)
              /\ \A n \in 1..Len(entries) :
                    /\ entries[n].timestamp = L[n]["dt_txt"]
                    /\ entries[n] = BuildEntry(L[n])
              /\ \A N \in StepCounts :
                    /\ Len(Truncate(L, N)) = Min(Len(L), N)
                    /\ \A n \in 1..Len(Truncate(L, N)) : Truncate(L, N)[n] = L[n]

\* a list of N + 1 steps that are not in the order of their timestamps is
\* cut to its first N steps, which stay in the provider's order
C14_Witness ==
    \E i \in CallIds :
        /\ ForecastOK(calls[i])
        /\ Len(ProviderList(calls[i])) = FORECAST_STEPS_3H + 1
        /\ Len(calls[i].response.entries) = FORECAST_STEPS_3H
        /\ calls[i].response.entries[1].timestamp > calls[i].response.entries[2].timestamp

-----------------------------------------------------------------------------
(* C15 *)

\* C15: GetForecast never reads or writes the store: a GetForecast call has
\* made no store read and no insert however it ends, none of its steps
\* changes the collection, and a GetForecast that ends with status OK has
\* made one provider call, in that same request, that was answered with 200
C15_ForecastLive ==
    /\ [](\A i \in CallIds : calls[i].op = "GetForecast" =>
            /\ calls[i].storeReads = 0 /\ calls[i].inserts = 0
            /\ ForecastOK(calls[i]) => (calls[i].providerCalls = 1 /\ Fetched(calls[i])))
    /\ [][\A i \in CallIds :
            (calls[i].op = "GetForecast" /\ calls'[i] # calls[i]) => store' = store]_vars

\* a GetForecast succeeded with one provider call while the collection held
\* a record for its city
C15_Witness ==
    \E i \in CallIds :
        /\ ForecastOK(calls[i]) /\ calls[i].providerCalls = 1
        /\ Len(calls[i].response.entries) > 0
        /\ \E n \in 1..Len(store) : Get(store[n], "cache_key", <<>>) = KeyOf(calls[i])

-----------------------------------------------------------------------------
(* C19 *)

\* how a GetCurrentWeather for the request of c ends on an empty collection
\* when the provider answers as it answered c
OnEmptyStore(c) ==
    LET r == fetch_weather_from_openweather(owKey, c.x)
    IN  IF r.raises # ""
        THEN [status |-> FetchAbort(r).status, details |-> FetchAbort(r).details,
              response |-> None]
        ELSE [status |-> "OK", details |-> "",
              response |-> BuildResponse(r.value, Strip(c.city), c.response.timestamp)]

\* C19: a store error raised by the latest-record lookup of the Freshness
\* Cache is treated like "no record found": the cache reports what it
\* reports when there is no record, the call goes on to the provider fetch,
\* and it ends as it would on an empty store (same status, details and
\* response for the same provider answer, one insert attempted after a
\* successful fetch)
C19_LookupErrorIsMiss ==
    /\ \A i \in CallIds : (LookedUp(calls[i]) /\ calls[i].lookupFailed) =>
          LET c == calls[i]
              e == OnEmptyStore(c)
          IN  /\ c.cached = None
              /\ c.cached = get_cached_weather_if_fresh(FALSE, None, c.city_input, c.lookupAt, ttl)
              /\ GoesToProvider(c)
              /\ Done(c) =>
                    /\ c.status = e.status
                    /\ c.details = e.details
                    /\ c.response = e.response
                    /\ c.inserts = (IF Fetched(c) /\ ~c.saveFailed THEN 1 ELSE 0)
    /\ \A i \in CallIds : (LookedUp(calls[i]) /\ calls[i].seen = 0 /\ Done(calls[i])) =>
          LET e == OnEmptyStore(calls[i])
          IN  /\ calls[i].status = e.status
              /\ calls[i].response = e.response

\* the lookup failed while the collection held a fresh record for the key:
\* the call fetched from the provider and returned the fetched values
C19_Witness ==
    \E i \in CallIds :
        /\ LookedUp(calls[i]) /\ calls[i].lookupFailed
        /\ FreshInStore(calls[i])
        /\ Done(calls[i]) /\ calls[i].status = "OK" /\ Fetched(calls[i])
        /\ calls[i].response["temperature_celsius"] = 20

-----------------------------------------------------------------------------
(* C13 *)

\* call i makes its insert in this step, after a provider answer with status 200
InsertsAfterFetch(i) ==
    /\ Current(calls[i]) /\ calls[i].pc = "save" /\ calls'[i].pc = "done"
    /\ Fetched(calls[i])
    /\ calls[i].providerCalls = 1
    /\ store' = Append(store, store'[Len(store')])
    /\ store'[Len(store')]["cache_key"] = KeyOf(calls[i])

\* C13: the store is an append-only log: whatever request takes a step
\* (GetCurrentWeather, GetForecast, the gateway's routes, in any
\* interleaving), the records present before the step are present after it,
\* unchanged and in place, and a record is added only by the insert of a
\* GetCurrentWeather call whose provider fetch succeeded
C13_AppendOnly ==
    [][/\ AppendOnlyStep
       /\ store' # store => \E i \in CallIds : InsertsAfterFetch(i)
       /\ q' # q => store' = store]_vars

\* a GET /weather found one record, refreshed it through GetCurrentWeather
\* and returned both records: the old one is still there
C13_Witness ==
    /\ q.fn = "weather" /\ q.pc = "done" /\ q.http = 200
    /\ Len(store) = 2 /\ q.seen = 1
    /\ Len(q.data) = 2
    /\ calls[1].inserts = 1

-----------------------------------------------------------------------------
(* C16 *)

\* the collection as it was when the gateway last read it before deciding
StoreAtDecision == SubSeq(store, 1, q.seen)

\* the most recent of the records of st that match the city, whatever their age
LatestForCity(st, city) ==
    LET M == {n \in 1..Len(st) : MatchesCity(st[n], city)}
    IN  {st[n] : n \in {m \in M : \A o \in M : ~Newer(st[o], st[m])}}

\* that record is absent, has no numeric created_at or is older than TTL at time t
StaleForCity(st, city, t) ==
    \/ LatestForCity(st, city) = {}
    \/ \E d \in LatestForCity(st, city) : ~Numeric(d) \/ t - CreatedAt(d).v > ttl

\* a GET /weather that passed the validation of its parameters, sent by a
\* gateway that has its credential
ValidWeather == q.fn = "weather" /\ q.pc # "new" /\ q.http # 400 /\ q.key # ""

-----------------------------------------------------------------------------
(* C17 *)

\* the refresh the request triggered has succeeded
RefreshSucceeded ==
    /\ q.fn = "weather" /\ q.rpcCalls = 1
    /\ calls[1].pc = "done" /\ calls[1].op = "GetCurrentWeather" /\ calls[1].status = "OK"

\* C17 as stated: a store read failure never keeps a successful refresh from
\* being reported: when a GET /weather has responded and the GetCurrentWeather
\* it triggered succeeded, the response is a success, also when the latest
\* read or the re-read of the history failed
C17_AsStated ==
    (q.pc = "done" /\ RefreshSucceeded) => q.http = 200

-----------------------------------------------------------------------------
(* C18 *)

\* the request has no city, or a limit or hours that is not a positive integer
BadRequest ==
    \/ ~q.city.given \/ Blank(q.city.text)
    \/ q.fn = "weather" /\ (q.limitRaw \in BadInts \/ q.hoursRaw \in BadInts)

\* such a request is answered with 400 and touches neither store nor service
ClientErrors ==
    (q.fn \in {"weather", "forecast"} /\ q.pc # "new" /\ BadRequest) =>
        /\ q.pc = "done" /\ q.http = 400
        /\ q.storeReads = 0 /\ q.rpcCalls = 0
        /\ calls[1] = IdleCall

\* the RPC was sent and failed: the service was not reached, or ended with
\* a status other than OK
RpcFailed == q.rpcCalls = 1 /\ (calls[1].pc = "idle" \/ calls[1].status # "OK")

\* an upstream failure is answered with 502, the name of the RPC status and
\* the details of the service
UpstreamErrors ==
    (q.fn \in {"weather", "forecast"} /\ q.pc = "done" /\ RpcFailed) =>
        /\ q.http = 502
        /\ q.code = (IF calls[1].pc = "idle" THEN "UNAVAILABLE" ELSE calls[1].status)
        /\ calls[1].pc = "done" => q.details = calls[1].details

\* the initial read of the history failed: it was the only read
InitialReadFailed == q.fn = "weather" /\ q.pc = "done" /\ q.storeReads = 1

\* C18 as stated: no or empty city, or a limit or hours that is not a
\* positive integer, gives 400 with no store or RPC access; a store error in
\* any read of the history gives 500; a failure of the upstream RPC gives
\* 502 with the name of the RPC status code and the details
C18_AsStated ==
    /\ ClientErrors
    /\ UpstreamErrors
    /\ (q.fn = "weather" /\ q.pc = "done"
            /\ (InitialReadFailed \/ q.latestFailed \/ q.rereadFailed)) => q.http = 500

\* C18: no or empty city, or a limit or hours that is not a positive
\* integer, gives 400 with no store or RPC access; a store error in the
\* initial read of the history or in the re-read after the refresh gives
\* 500, while a store error in the latest-record read gives no error by
\* itself (the gateway refreshes); a failure of the upstream RPC gives 502
\* with the name of the RPC status code and the details
C18_StatusMapping ==
    /\ ClientErrors
    /\ UpstreamErrors
    /\ (InitialReadFailed \/ (q.pc = "done" /\ q.rereadFailed)) => q.http = 500
    /\ (q.fn = "weather" /\ q.latestFailed) =>
            /\ q.needs_refresh
            /\ (q.pc = "done" /\ RefreshSucceeded /\ ~q.rereadFailed) => q.http = 200

\* a GET /weather is answered 502 with NOT_FOUND and "City not found"
C18_Witness ==
    /\ q.fn = "weather" /\ q.pc = "done"
    /\ q.http = 502 /\ q.code = "NOT_FOUND" /\ q.details = "City not found"
    /\ calls[1].x.status = 404

-----------------------------------------------------------------------------
(* C20 *)

\* the Freshness Cache reports stale for the normalized key of the city, on
\* the collection st at time t
CacheStale(st, city, t) ==
    \A doc \in get_latest_weather_record(st, CacheKey(CityInput(city))) :
        get_cached_weather_if_fresh(FALSE, doc, CityInput(city), t, ttl) = None

\* C20 as stated: the gateway decides to refresh if and only if the
\* Freshness Cache reports stale for the normalized key of the city, for
\* every content of the collection, city, TTL and time (the reads of both
\* succeeding)
C20_AsStated ==
    (q.fn = "weather" /\ q.storeReads >= 2 /\ ~q.latestFailed) =>
        (q.needs_refresh <=> CacheStale(StoreAtDecision, q.cityArg, q.decidedAt))

-----------------------------------------------------------------------------
(* C21 *)

\* the lookup of call c returned something (it did not raise)
LookupAnswered(c) == LookedUp(c) /\ ~c.lookupFailed

\* document d is stored without the key and matches the city only through
\* the city-equality clauses of the history query
LegacyOnly(d, city) == "cache_key" \notin DOMAIN d /\ HistoryMatch(d, city)

\* C21: under any interleaving of inserts and lookups, the record the
\* Freshness Cache evaluates for a cache key is a stored record with exactly
\* that key whose created_at is the maximum among the stored records with
\* that key, and it is no record at all when no record has the key; a record
\* that matches only through the city-equality fallback is never evaluated
C21_LatestByKey ==
    \A i \in CallIds : LookupAnswered(calls[i]) =>
        LET c == calls[i]
            st == StoreAtLookup(c)
            key == KeyOf(c)
        IN  IF Under(st, key) = {} THEN c.doc = None
            ELSE /\ \E n \in Under(st, key) : c.doc = st[n]
                 /\ \A n \in Under(st, key) : ~Newer(st[n], c.doc)
                 /\ ~LegacyOnly(c.doc, c.city_input)

\* a lookup made after a concurrent call inserted its record evaluates that
\* record, and not the older record without a key that matches by its city
C21_Witness ==
    \E i \in CallIds :
        /\ LookupAnswered(calls[i])
        /\ calls[i].seen = 2
        /\ LegacyOnly(store[1], calls[i].city_input)
        /\ calls[i].doc = store[2]
        /\ \E j \in CallIds \ {i} : calls[j].inserts = 1

-----------------------------------------------------------------------------
(* C22 *)

\* the call is being served
InProgress(c) == c.pc \notin {"idle", "done"}

\* the exchange of the call with the provider did not give a 200 answer with
\* a JSON body
ProviderFailed(c) == c.providerCalls > 0 /\ ~Fetched(c)

\* at most one provider call per request, a failed provider call fails the
\* request, and the next step of a call never depends on the other call
OneAttempt ==
    \A i \in CallIds :
        /\ calls[i].providerCalls <= 1
        /\ (Done(calls[i]) /\ ProviderFailed(calls[i])) =>
              calls[i].status \in {"NOT_FOUND", "UNAVAILABLE", "UNKNOWN"}
        /\ InProgress(calls[i]) => ENABLED ServeCall(i)

\* C22: there is no retry: each GetCurrentWeather or GetForecast request
\* issues at most one provider call, and if that call fails the request
\* fails; every request terminates, with a response or a failure code, and
\* whatever the other request does its own next step can be taken
C22_NoRetry ==
    /\ []OneAttempt
    /\ \A i \in CallIds : InProgress(calls[i]) ~> Done(calls[i])

\* a request ended with UNAVAILABLE after its one provider call failed, while
\* the other request has not taken a step yet
C22_Witness ==
    \E i \in CallIds :
        /\ Done(calls[i]) /\ calls[i].x.kind = "exception"
        /\ calls[i].providerCalls = 1 /\ calls[i].status = "UNAVAILABLE"
        /\ \E j \in CallIds \ {i} : calls[j].pc = "new"

-----------------------------------------------------------------------------
(* C23 *)

\* a GetCurrentWeather call that ended with a failure status
FailedCurrent(c) == Current(c) /\ Done(c) /\ c.status # "OK"

\* the collection holds, now, a latest record for the key that is no older
\* than TTL
FreshNow(key) == \E d \in Latest(store, key) : UsableAt(d, now)

\* this step ends call i with a failure
FailsNow(i) == ~Done(calls[i]) /\ FailedCurrent(calls[i]')

\* this step is the cache lookup of call j
LooksUpNow(j) == calls[j].pc = "cache" /\ calls[j]'.pc # "cache"

\* C23: there is no negative caching: the step in which a GetCurrentWeather
\* fails (authentication, invalid argument, NOT_FOUND or UNAVAILABLE) leaves
\* the collection unchanged, and a request for the same city that looks its
\* key up after that failure, while the collection holds no fresh record for
\* it, misses and goes on to the provider fetch
C23_NoNegativeCaching ==
    [][\A i \in CallIds :
          /\ FailsNow(i) => store' = store
          /\ \A j \in CallIds \ {i} :
                (/\ FailedCurrent(calls[i]) /\ LooksUpNow(j)
                 /\ KeyOf(calls[j]) = KeyOf(calls[i])
                 /\ ~FreshNow(KeyOf(calls[j])))
                    => calls[j]'.cached = None /\ calls[j]'.pc = "fetch"]_vars

\* one request ended with NOT_FOUND after its provider call; the other, for
\* the same city on the collection the failure left empty, looked its key up
\* a second later, fetched from the provider and inserted its record
C23_Witness ==
    \E i \in CallIds, j \in CallIds :
        /\ i # j /\ KeyOf(calls[i]) = KeyOf(calls[j])
        /\ FailedCurrent(calls[i]) /\ calls[i].status = "NOT_FOUND"
        /\ calls[i].providerCalls = 1 /\ calls[i].lookupAt = 0
        /\ Done(calls[j]) /\ calls[j].status = "OK" /\ calls[j].lookupAt = 1
        /\ calls[j].seen = 0 /\ calls[j].providerCalls = 1 /\ calls[j].inserts = 1
        /\ Len(store) = 1

-----------------------------------------------------------------------------
(* C25 *)

\* how the gate ends a call that does not present the configured credential:
\* a table over the two credentials only
GateOutcome(expected, received) ==
    IF expected = "" THEN <<"UNKNOWN", "Missing GRPC_API_KEY">>
    ELSE IF received \in {Absent, ""} THEN <<"UNAUTHENTICATED", "Missing x-api-key">>
    ELSE <<"PERMISSION_DENIED", "Invalid x-api-key">>

\* what the call holds of the collection and of the provider
Learned(c) == <<c.doc, c.cached, c.x, c.response>>

\* C25: a request that fails the authentication gate (credential missing,
\* wrong, or expected credential not configured) has no effect and learns
\* nothing: it makes no store read, no insert and no provider call, it holds
\* no record and no provider answer, and its status and details are those of
\* a table over the configured and the presented credential alone, so that
\* they depend neither on the collection nor on the city nor on the RPC
C25_GateIsolation ==
    \A i \in CallIds : (Entered(calls[i]) /\ ~Authenticated(calls[i])) =>
        LET c == calls[i]
        IN  /\ Done(c)
            /\ c.storeReads = 0 /\ c.inserts = 0 /\ c.providerCalls = 0
            /\ Learned(c) = <<None, None, NoExchange, None>>
            /\ <<c.status, c.details>> = GateOutcome(grpcKey, c.received)
            /\ \A j \in CallIds :
                  (Entered(calls[j]) /\ calls[j].received = c.received) =>
                      <<calls[j].status, calls[j].details>> = <<c.status, c.details>>

\* a GetCurrentWeather without credential is refused without a store read
\* while the collection holds a fresh record for its city, from which the
\* authenticated call for the same city was served
C25_Witness ==
    \E i \in CallIds, j \in CallIds :
        /\ Current(calls[i]) /\ calls[i].received = Absent /\ ~Blank(calls[i].city)
        /\ Done(calls[i]) /\ calls[i].status = "UNAUTHENTICATED"
        /\ calls[i].storeReads = 0
        /\ FreshNow(KeyOf(calls[i]))
        /\ Authenticated(calls[j]) /\ KeyOf(calls[j]) = KeyOf(calls[i])
        /\ Done(calls[j]) /\ calls[j].status = "OK" /\ calls[j].providerCalls = 0

-----------------------------------------------------------------------------
(* C24 *)

\* the value of a number of the answer, or the default when the key is
\* absent or its value is null
NumberOr(part, k, default) ==
    LET c == Get(part, k, Missing) IN IF c.k = "none" THEN default ELSE c.v

\* the description of the first weather entry, or "n/a" when the list is
\* absent or empty or the entry has no description
DescriptionOr(weather) ==
    IF weather # <<>> /\ "description" \in DOMAIN weather[1]
    THEN weather[1]["description"] ELSE "n/a"

\* the four fields as documented, for one answer or one step of a forecast
Documented(part) ==
    [temperature_celsius |-> NumberOr(Get(part, "main", None), "temp", 0),
     humidity |-> NumberOr(Get(part, "main", None), "humidity", 0),
     description |-> DescriptionOr(Get(part, "weather", <<>>)),
     wind_speed |-> NumberOr(Get(part, "wind", None), "speed", 0)]

ExtractedFields == {"temperature_celsius", "humidity", "description", "wind_speed"}

\* C24 as stated: extraction never fails a request: for a 200 answer in
\* which any of temperature, humidity, description or wind speed is missing
\* (key absent, value null, or empty weather list), GetCurrentWeather and
\* GetForecast succeed and the field holds its default, 0.0, 0, "n/a", 0.0
C24_AsStated ==
    q.fn = "extracted" =>
        /\ q.out.raises = ""
        /\ LET built == IF q.op = "GetCurrentWeather" THEN q.out.value
                        ELSE q.out.value.entries[1]
               part == IF q.op = "GetCurrentWeather" THEN q.body ELSE q.body.list[1]
           IN  \A f \in ExtractedFields : built[f] = Documented(part)[f]

-----------------------------------------------------------------------------
(* C26 *)

\* the records appended after call c looked its key up
AfterLookup(c) == (c.seen + 1)..Len(store)

\* call j made its insert before call i looked its key up: the index of the
\* record of j that i found in the collection
RefreshedBefore(j, i) ==
    {n \in (calls[j].seen + 1)..calls[i].seen :
        calls[j].inserts = 1 /\ Get(store[n], "cache_key", <<>>) = KeyOf(calls[j])}

\* every record persisted by GetCurrentWeather has the trimmed, lower-case
\* city of its request as cache_key, which is not empty, whatever name the
\* provider gave the city
PersistedUnderKey ==
    \A i \in CallIds : LookedUp(calls[i]) =>
        /\ \A n \in AfterLookup(calls[i]) :
              /\ "cache_key" \in DOMAIN store[n]
              /\ store[n]["cache_key"] # <<>>
              /\ \E j \in CallIds : /\ calls[j].inserts = 1
                                     /\ store[n]["cache_key"] = Lower(Strip(calls[j].city))
                                     /\ store[n]["city"] = calls[j].response.city
        /\ calls[i].inserts = 1 =>
              \E n \in AfterLookup(calls[i]) : store[n]["cache_key"] = Lower(Strip(calls[i].city))

\* call i looked its key up within TTL of the record that the refresh of
\* call j had inserted for a variant of its city
WithinTTLOfRefresh(j, i) ==
    /\ i # j /\ LookedUp(calls[i])
    /\ KeyOf(calls[i]) = KeyOf(calls[j])
    /\ \E n \in RefreshedBefore(j, i) : calls[i].lookupAt - CreatedAt(store[n]).v <= ttl

\* no record of the key of call c has a created_at that sorts after the
\* numbers
NumbersOnly(c) ==
    \A n \in Under(StoreAtLookup(c), KeyOf(c)) : CreatedAt(store[n]).k \in {"none", "num"}

-----------------------------------------------------------------------------
(* C27 *)

\* the provider answered the fetch of call c with HTTP status 404
Answered404(c) == c.providerCalls = 1 /\ c.x.kind # "exception" /\ c.x.status = 404

\* C27 as stated: GetCurrentWeather fails with NOT_FOUND only if the
\* provider answered the fetch of that request with HTTP 404; no other
\* provider outcome (success status with an undecodable body, other status
\* codes, transport errors, missing provider key) yields NOT_FOUND
C27_AsStated ==
    \A i \in CallIds :
        (Current(calls[i]) /\ Done(calls[i]) /\ calls[i].status = "NOT_FOUND")
            => Answered404(calls[i])

-----------------------------------------------------------------------------
(* C28 *)

\* GET /weather without 'hours' was answered with success
AnsweredHistory ==
    /\ q.fn = "weather" /\ q.pc = "done" /\ q.http = 200
    /\ q.hours = NoHours /\ q.limit >= 1

\* record d was inserted after the freshness decision of the request
InsertedSinceDecision(d) == \E n \in (q.seen + 1)..Len(store) : store[n] = d

\* C28 as stated: whenever GET /weather (without an hours filter, limit >= 1)
\* responds with success, the first record of the returned data is fresh: it
\* exists and its created_at is no older than TTL at the time of the
\* freshness decision, or it was inserted by the refresh the request
\* triggered; the Gateway never answers success with an empty or entirely
\* stale data list
C28_AsStated ==
    AnsweredHistory =>
        /\ q.data # <<>>
        /\ \/ UsableAt(q.data[1], q.decidedAt)
           \/ q.rpcCalls = 1 /\ InsertedSinceDecision(q.data[1])

====
